---- MODULE Spec2Model ----
(***************************************************************************)
(* A model of the document core of azure-doc-intelligence-engine:          *)
(*   server/extract_toc.py           TOC locator, topic index builder      *)
(*   rasa_backend/actions/actions.py page-range parser, topic resolver     *)
(*   server/spreadsheet_analysis.py  layout reconstructor                  *)
(* Each pure function of the source is an operator computed the way the    *)
(* code computes it; each specification draws the function's inputs in its *)
(* Init and applies the function in its actions.                           *)
(***************************************************************************)
EXTENDS Integers, Sequences, FiniteSets, TLC

VARIABLES
    pc,          \* position of the running operation
    entries,     \* build_topic_map: the (title, page) list it is given
    topic_map,   \* build_topic_map: the dict it returns
    topic,       \* the topic slot (run)
    page_query,  \* the page_query slot (run) or the page input (command line)
    ranges,      \* run / extract_from_page_query: the parsed ranges
    output,      \* what the caller ends with
    pdf_pages,   \* find_toc_page_range: the text of each page of the PDF
    scan_args,   \* find_toc_page_range: max_scan_pages and min_toc_len
    scan_i,      \* find_toc_page_range: the loop index i
    toc_start,   \* find_toc_page_range: toc_start
    toc_end,     \* find_toc_page_range: toc_end
    toc_range,   \* find_toc_page_range: what it returns
    result,      \* analyze_spreadsheet_auto_merge: the analysis (pages, tables)
    page_idx,    \* ... the place in result.pages of the page being processed
    tables,      \* ... the tables of the page, with their geometry
    bands,       \* ... the bands of the page
    offsets,     \* ... offsets and cum as computed for each band
    elements,    \* ... the layout elements of the page
    el_idx,      \* ... the place in elements of the element to emit next
    sheet_rows,  \* ... the rows emitted so far
    current_row, \* ... the row counter
    data         \* ... the JSON it returns

vars == <<pc, entries, topic_map, topic, page_query, ranges, output,
          pdf_pages, scan_args, scan_i, toc_start, toc_end, toc_range,
          result, page_idx, tables, bands, offsets, elements, el_idx,
          sheet_rows, current_row, data>>

sheetVars == <<result, page_idx, tables, bands, offsets, elements, el_idx,
               sheet_rows, current_row, data>>

tocVars == <<pdf_pages, scan_args, scan_i, toc_start, toc_end, toc_range>>

topicVars == <<entries, topic_map>>
queryVars == <<topic, page_query, ranges, output>>

\* The value of a variable the running operation has not assigned.
Unset == <<"unset">>

TopicIdle == entries = <<>> /\ topic_map = <<>>
TocIdle ==
    /\ pdf_pages = <<>>
    /\ scan_args = Unset
    /\ scan_i = 0
    /\ toc_start = Unset
    /\ toc_end = Unset
    /\ toc_range = Unset

SheetIdle ==
    /\ result = Unset
    /\ page_idx = 0
    /\ tables = <<>>
    /\ bands = <<>>
    /\ offsets = <<>>
    /\ elements = <<>>
    /\ el_idx = 0
    /\ sheet_rows = <<>>
    /\ current_row = 0
    /\ data = Unset

QueryIdle == topic = Unset /\ page_query = Unset /\ ranges = Unset /\ output = Unset

(***************************************************************************)
(* Python values shared by the models.                                     *)
(***************************************************************************)

\* Python's None where the code mixes it with integers: a value that is
\* none of the integers the modelled code can compute.
None == -1000000

\* Python truthiness of an int-or-None: None and 0 are falsy.
Truthy(v) == v # None /\ v # 0

\* range(a, b) as a sequence.
Range(a, b) == [k \in 1..(IF b > a THEN b - a ELSE 0) |-> a + k - 1]

\* A Python dict, as the sequence of its <<key, value>> items in insertion
\* order.  d[k] = v keeps the place of a key already there.
DictHas(d, k) == \E n \in 1..Len(d) : d[n][1] = k

DictGet(d, k) == d[CHOOSE n \in 1..Len(d) : d[n][1] = k][2]

DictSet(d, k, v) ==
    IF DictHas(d, k)
    THEN [n \in 1..Len(d) |-> IF d[n][1] = k THEN <<k, v>> ELSE d[n]]
    ELSE Append(d, <<k, v>>)

DictKeys(d) == [n \in 1..Len(d) |-> d[n][1]]

(***************************************************************************)
(* extract_toc.py: build_topic_map                                         *)
(***************************************************************************)

\* Bounds of the entry lists tried.
MaxEntries == 3
MaxPage == 3

Titles == {"Intro", "Methods", "Results"}

\* The page numbers tried: the small ones, and those of the worked example.
Pages == (0..MaxPage) \cup {5, 9}

\* A mutant: the end of a range is the page before the next entry's start.
EntryEndMinusOne(ents, idx) ==
    LET start == ents[idx][2]
        nxt   == IF idx + 1 <= Len(ents) THEN ents[idx + 1][2] ELSE None
    IN  IF Truthy(nxt) /\ nxt >= start THEN nxt - 1 ELSE None

\* Lines 73-74: the end paired with entry idx (1-based here).
EntryEnd(ents, idx) ==
    LET start == ents[idx][2]
        nxt   == IF idx + 1 <= Len(ents) THEN ents[idx + 1][2] ELSE None
    IN  IF Truthy(nxt) /\ nxt >= start THEN nxt ELSE None

RECURSIVE BuildFrom(_, _, _)
BuildFrom(ents, idx, tm) ==
    IF idx > Len(ents) THEN tm
    ELSE BuildFrom(ents, idx + 1,
                   DictSet(tm, ents[idx][1], <<ents[idx][2], EntryEnd(ents, idx)>>))

build_topic_map(ents) == BuildFrom(ents, 1, <<>>)

\* actions.py extract_pdf_text: the 1-based numbers of the pages it loads,
\* in order (load_page(p) for p in range(start - 1, end)).
extract_pdf_text(start, end) ==
    [k \in 1..Len(Range(start - 1, end)) |-> Range(start - 1, end)[k] + 1]

EntryLists ==
    UNION {[1..n -> Titles \X Pages] : n \in 0..MaxEntries}

InitTopic ==
    /\ pc = "build_topic_map"
    /\ entries \in EntryLists
    /\ topic_map = <<>>
    /\ QueryIdle
    /\ TocIdle
    /\ SheetIdle

BuildTopicMap ==
    /\ pc = "build_topic_map"
    /\ topic_map' = build_topic_map(entries)
    /\ pc' = "topic_map_built"
    /\ UNCHANGED <<entries, queryVars, tocVars, sheetVars>>

NextTopic == BuildTopicMap

SpecTopic == InitTopic /\ [][NextTopic]_vars

(***************************************************************************)
(* Claims on the topic index.                                              *)
(***************************************************************************)

\* Entry i is the one the dict keeps for its title: build_topic_map's
\* topic_map[title] = ... lets a later entry of the same title overwrite it.
KeptEntry(i) == \A j \in (i + 1)..Len(entries) : entries[j][1] # entries[i][1]

StrictlyIncreasingPages ==
    \A i \in 1..(Len(entries) - 1) : entries[i][2] < entries[i + 1][2]

\* The end the builder's rule of section 4.4 pairs with entry i.
RuleEnd(i) ==
    IF i + 1 <= Len(entries) /\ entries[i + 1][2] >= entries[i][2]
    THEN entries[i + 1][2]
    ELSE None

\* C2: build_topic_map maps every entry i to [start, end] with end the start
\* of entry i+1 exactly when that entry exists and its start is >= the start
\* of entry i, and null otherwise.
C2_EndIsNextStartIffNotSmaller ==
    pc = "topic_map_built" =>
        \A i \in 1..Len(entries) :
            KeptEntry(i) =>
                /\ DictHas(topic_map, entries[i][1])
                /\ DictGet(topic_map, entries[i][1]) = <<entries[i][2], RuleEnd(i)>>

\* C3, as the spec states it: with strictly increasing start pages every
\* entry but the last gets [start, next start - 1], the last gets
\* [start, null], and the inclusive ranges of two topics share no page.
C3_RangesEndBeforeNextStart ==
    (pc = "topic_map_built" /\ StrictlyIncreasingPages) =>
        /\ \A i \in 1..Len(entries) :
              KeptEntry(i) =>
                  DictGet(topic_map, entries[i][1]) =
                      <<entries[i][2],
                        IF i < Len(entries) THEN entries[i + 1][2] - 1 ELSE None>>
        /\ \A m, n \in 1..Len(topic_map) :
              (m # n /\ topic_map[m][2][2] # None /\ topic_map[n][2][2] # None) =>
                  \A a \in 1..Len(extract_pdf_text(topic_map[m][2][1], topic_map[m][2][2])) :
                  \A b \in 1..Len(extract_pdf_text(topic_map[n][2][1], topic_map[n][2][2])) :
                      extract_pdf_text(topic_map[m][2][1], topic_map[m][2][2])[a]
                          # extract_pdf_text(topic_map[n][2][1], topic_map[n][2][2])[b]

WorkedExample == <<<<"Intro", 1>>, <<"Methods", 5>>, <<"Results", 9>>>>

\* C3, amended: with strictly increasing start pages every entry but the
\* last (the one kept for its title) gets [start, next entry's start], the
\* last gets [start, null]; the worked example yields Intro:[1,5],
\* Methods:[5,9], Results:[9,null]; and the pages read for a bounded range
\* are start..next start, so the next topic's first page is read for both.
C3_RangesEndAtNextStart ==
    (pc = "topic_map_built" /\ StrictlyIncreasingPages) =>
        /\ \A i \in 1..Len(entries) :
              KeptEntry(i) =>
                  /\ DictGet(topic_map, entries[i][1]) =
                        <<entries[i][2],
                          IF i < Len(entries) THEN entries[i + 1][2] ELSE None>>
                  /\ i < Len(entries) =>
                        LET read == extract_pdf_text(entries[i][2],
                                        DictGet(topic_map, entries[i][1])[2])
                        IN  /\ {read[k] : k \in 1..Len(read)} =
                                  entries[i][2]..entries[i + 1][2]
                            /\ read[Len(read)] = entries[i + 1][2]
        /\ entries = WorkedExample =>
              topic_map = << <<"Intro", <<1, 5>> >>, <<"Methods", <<5, 9>> >>,
                             <<"Results", <<9, None>> >> >>

C3_Witness ==
    /\ pc = "topic_map_built"
    /\ entries = WorkedExample
    /\ DictGet(topic_map, "Intro") = <<1, 5>>

(***************************************************************************)
(* Python strings, as sequences of one-character strings.                  *)
(***************************************************************************)

Digits == {"1", "2"}

\* int() of one digit.
DigitVal(c) == IF c = "1" THEN 1 ELSE 2

IsSpace(c) == c = " "

\* s.strip()
RECURSIVE LStrip(_)
LStrip(s) == IF s # <<>> /\ IsSpace(Head(s)) THEN LStrip(Tail(s)) ELSE s

RECURSIVE RStrip(_)
RStrip(s) ==
    IF s # <<>> /\ IsSpace(s[Len(s)]) THEN RStrip(SubSeq(s, 1, Len(s) - 1)) ELSE s

Strip(s) == RStrip(LStrip(s))

\* c in s
Contains(s, c) == \E n \in 1..Len(s) : s[n] = c

\* s.find(c) + 1: the first place of c in s, 0 when there is none.
Find(s, c) ==
    IF Contains(s, c)
    THEN CHOOSE n \in 1..Len(s) : s[n] = c /\ \A m \in 1..(n - 1) : s[m] # c
    ELSE 0

\* s.split(c)
RECURSIVE Split(_, _)
Split(s, c) ==
    IF Find(s, c) = 0 THEN <<s>>
    ELSE <<SubSeq(s, 1, Find(s, c) - 1)>>
             \o Split(SubSeq(s, Find(s, c) + 1, Len(s)), c)

\* s.split(c, 1), for an s that holds c
SplitOnce(s, c) ==
    <<SubSeq(s, 1, Find(s, c) - 1), SubSeq(s, Find(s, c) + 1, Len(s))>>

\* s.isdigit()
IsDigit(s) == s # <<>> /\ \A n \in 1..Len(s) : s[n] \in Digits

\* The number a run of digits writes in base ten.
RECURSIVE Decimal(_)
Decimal(s) ==
    IF s = <<>> THEN 0
    ELSE 10 * Decimal(SubSeq(s, 1, Len(s) - 1)) + DigitVal(s[Len(s)])

\* int(s): blanks around the number and a sign before it are accepted;
\* anything else raises ValueError.
PyInt(s) ==
    LET t    == Strip(s)
        neg  == t # <<>> /\ Head(t) = "-"
        body == IF neg THEN Tail(t) ELSE t
    IN  IF IsDigit(body)
        THEN [raised |-> FALSE, val |-> IF neg THEN 0 - Decimal(body) ELSE Decimal(body)]
        ELSE [raised |-> TRUE, val |-> 0]

(***************************************************************************)
(* actions.py: parse_page_query, by_page_ranges, run (page query);         *)
(* extract_toc.py: parse_page_input, extract_from_page_query               *)
(***************************************************************************)

\* Bounds: the longest query string tried, and the pages of the document.
MaxQueryLen == 5
DocPages == 2

QueryChars == Digits \cup {"-", ",", " ", "x"}

QueryStrings == UNION {[1..n -> QueryChars] : n \in 0..MaxQueryLen}

Raised == [raised |-> TRUE, segments |-> <<>>]

\* A mutant: a range written backwards is put in order.
SegmentOfOrdered(part) ==
    IF Contains(part, "-")
    THEN LET se == SplitOnce(part, "-")
             a  == PyInt(se[1])
             b  == PyInt(se[2])
         IN  IF a.raised \/ b.raised THEN Raised
             ELSE [raised |-> FALSE,
                   segments |-> <<IF a.val <= b.val THEN <<a.val, b.val>>
                                  ELSE <<b.val, a.val>> >>]
    ELSE LET q == PyInt(part)
         IN  IF q.raised THEN Raised
             ELSE [raised |-> FALSE, segments |-> << <<q.val, q.val>> >>]

\* Lines 33-39: what one comma-separated part adds, or the ValueError of int.
SegmentOf(part) ==
    IF Contains(part, "-")
    THEN LET se == SplitOnce(part, "-")
             a  == PyInt(se[1])
             b  == PyInt(se[2])
         IN  IF a.raised \/ b.raised THEN Raised
             ELSE [raised |-> FALSE, segments |-> << <<a.val, b.val>> >>]
    ELSE LET q == PyInt(part)
         IN  IF q.raised THEN Raised
             ELSE [raised |-> FALSE, segments |-> << <<q.val, q.val>> >>]

RECURSIVE ParseParts(_, _, _)
ParseParts(parts, n, segments) ==
    IF n > Len(parts) THEN [raised |-> FALSE, segments |-> segments]
    ELSE LET one == SegmentOf(Strip(parts[n]))
         IN  IF one.raised THEN Raised
             ELSE ParseParts(parts, n + 1, segments \o one.segments)

parse_page_query(q) == ParseParts(Split(q, ","), 1, <<>>)

\* extract_toc.py lines 107-113: what one part adds; a part that has no
\* hyphen and is not all digits adds nothing.
InputSegmentOf(part) ==
    IF Contains(part, "-")
    THEN LET pieces == Split(part, "-")
         IN  IF Len(pieces) # 2 \/ PyInt(pieces[1]).raised \/ PyInt(pieces[2]).raised
             THEN Raised
             ELSE [raised |-> FALSE,
                   segments |-> << <<PyInt(pieces[1]).val, PyInt(pieces[2]).val>> >>]
    ELSE IF IsDigit(part)
         THEN [raised |-> FALSE, segments |-> << <<Decimal(part), Decimal(part)>> >>]
         ELSE [raised |-> FALSE, segments |-> <<>>]

RECURSIVE ParseInputParts(_, _, _)
ParseInputParts(parts, n, segments) ==
    IF n > Len(parts) THEN [raised |-> FALSE, segments |-> segments]
    ELSE LET one == InputSegmentOf(Strip(parts[n]))
         IN  IF one.raised THEN Raised
             ELSE ParseInputParts(parts, n + 1, segments \o one.segments)

\* The strings tried hold no letter of "page", so lower() and the two
\* replace() calls of line 103 leave them as they are; strip() acts.
parse_page_input(input_str) == ParseInputParts(Split(Strip(input_str), ","), 1, <<>>)

\* fitz load_page(p): a negative p counts from the end, a p past the last
\* page raises.
LoadPageRaises(p) == p >= DocPages

\* actions.py get_by_pages: the 1-based pages read, or the error text for
\* whatever extract_pdf_text raised (range(start - 1, None) is a TypeError).
get_by_pages(start, end) ==
    IF \/ end = None
       \/ \E k \in 1..Len(Range(start - 1, end)) :
              LoadPageRaises(Range(start - 1, end)[k])
    THEN [error |-> TRUE, pages |-> <<>>]
    ELSE [error |-> FALSE, pages |-> extract_pdf_text(start, end)]

\* actions.py by_page_ranges: one part per range, in order.
by_page_ranges(page_ranges) ==
    [n \in 1..Len(page_ranges) |->
        [s |-> page_ranges[n][1], e |-> page_ranges[n][2],
         body |-> get_by_pages(page_ranges[n][1], page_ranges[n][2])]]

\* extract_toc.py extract_content: range(start - 1, end or start) of
\* reader.pages, which raises IndexError out of range.
ContentRaises(start, end) ==
    LET last == IF Truthy(end) THEN end ELSE start
    IN  \E k \in 1..Len(Range(start - 1, last)) :
            \/ Range(start - 1, last)[k] >= DocPages
            \/ Range(start - 1, last)[k] < 0 - DocPages

InitQuery ==
    /\ pc = "page_query"
    /\ page_query \in QueryStrings
    /\ topic = Unset
    /\ ranges = Unset
    /\ output = Unset
    /\ TopicIdle
    /\ TocIdle
    /\ SheetIdle

\* run, lines 145-152 and 160-165: the try block around parse_page_query
\* and by_page_ranges.
RunPageQuery ==
    /\ pc = "page_query"
    /\ LET r == parse_page_query(page_query)
       IN  IF r.raised
           THEN /\ ranges' = Unset
                /\ output' = [kind |-> "invalid", parts |-> <<>>]
           ELSE /\ ranges' = r.segments
                /\ output' = [kind |-> "pages", parts |-> by_page_ranges(r.segments)]
    /\ pc' = "run_done"
    /\ UNCHANGED <<topic, page_query, topicVars, tocVars, sheetVars>>

\* extract_toc.py extract_from_page_query: nothing catches what
\* parse_page_input or extract_content raises.
ExtractFromPageQuery ==
    /\ pc = "page_query"
    /\ LET r == parse_page_input(page_query)
       IN  IF r.raised
           THEN /\ ranges' = Unset
                /\ output' = [kind |-> "raised", parts |-> <<>>]
           ELSE /\ ranges' = r.segments
                /\ output' =
                     IF \E n \in 1..Len(r.segments) :
                            ContentRaises(r.segments[n][1], r.segments[n][2])
                     THEN [kind |-> "raised", parts |-> <<>>]
                     ELSE [kind |-> "content", parts |-> r.segments]
    /\ pc' = "cli_done"
    /\ UNCHANGED <<topic, page_query, topicVars, tocVars, sheetVars>>

NextQuery == RunPageQuery \/ ExtractFromPageQuery

SpecQuery == InitQuery /\ [][NextQuery]_vars

(***************************************************************************)
(* Claims on the page-range parser.                                        *)
(***************************************************************************)

\* The trimmed comma-separated tokens of the query.
TokensOf(q) == [n \in 1..Len(Split(q, ",")) |-> Strip(Split(q, ",")[n])]

\* Purely digits, or digits-hyphen-digits with exactly one hyphen.
WellFormedToken(t) ==
    \/ IsDigit(t)
    \/ \E k \in 1..Len(t) :
          /\ t[k] = "-"
          /\ IsDigit(SubSeq(t, 1, k - 1))
          /\ IsDigit(SubSeq(t, k + 1, Len(t)))

WellFormedQuery(q) == \A n \in 1..Len(TokensOf(q)) : WellFormedToken(TokensOf(q)[n])

\* The range section 4.1 gives a well-formed token.
TokenRange(t) ==
    IF IsDigit(t) THEN <<Decimal(t), Decimal(t)>>
    ELSE <<Decimal(SubSeq(t, 1, Find(t, "-") - 1)),
           Decimal(SubSeq(t, Find(t, "-") + 1, Len(t)))>>

\* C4: when any token of the page-range string is malformed, parsing fails
\* and the caller (run) gets no ranges: none is returned or used to read
\* pages, and no malformed token is accepted or skipped.
C4_MalformedTokenFailsWholeQuery ==
    (pc = "run_done" /\ ~WellFormedQuery(page_query)) =>
        /\ output.kind = "invalid"
        /\ ranges = Unset
        /\ output.parts = <<>>

\* C5: for a well-formed page-range string parse_page_query returns one
\* range per token in token order, (p,p) for p and (a,b) for a-b, unchanged:
\* not merged, reordered, deduplicated, or rejected for a > b or for pages
\* past the end of the document.
C5_WellFormedQueryParsesTokenByToken ==
    (pc = "run_done" /\ WellFormedQuery(page_query)) =>
        /\ output.kind = "pages"
        /\ Len(ranges) = Len(TokensOf(page_query))
        /\ \A n \in 1..Len(ranges) : ranges[n] = TokenRange(TokensOf(page_query)[n])
        /\ Len(output.parts) = Len(ranges)
        /\ \A n \in 1..Len(ranges) :
              <<output.parts[n].s, output.parts[n].e>> = ranges[n]

\* "2-1,1": a range written backwards, then a page it already holds.
C5_Witness ==
    /\ pc = "run_done"
    /\ page_query = <<"2", "-", "1", ",", "1">>
    /\ ranges = << <<2, 1>>, <<1, 1>> >>

(***************************************************************************)
(* actions.py: clean_topic_key, by_topic, run (topic query)                *)
(***************************************************************************)

\* Bounds: the longest free query tried, and the entries of the index.
MaxTopicLen == 3
MaxKeys == 2

\* s.lower(), on the letters tried.
LowerChar(c) == IF c = "B" THEN "b" ELSE IF c = "A" THEN "a" ELSE c

Lower(s) == [n \in 1..Len(s) |-> LowerChar(s[n])]

\* The code point order of the characters tried (used by str comparison).
CharCode(c) ==
    CASE c = " " -> 32 [] c = "." -> 46 [] c = "1" -> 49 [] c = "2" -> 50
      [] c = "A" -> 65 [] c = "B" -> 66 [] c = "a" -> 97 [] c = "b" -> 98
      [] OTHER -> 120

\* x < y for Python strings.
RECURSIVE StrLess(_, _)
StrLess(x, y) ==
    IF y = <<>> THEN FALSE
    ELSE IF x = <<>> THEN TRUE
    ELSE IF Head(x) = Head(y) THEN StrLess(Tail(x), Tail(y))
    ELSE CharCode(Head(x)) < CharCode(Head(y))

\* \d+ at the head of s, taken off.
RECURSIVE SkipDigits(_)
SkipDigits(s) == IF s # <<>> /\ Head(s) \in Digits THEN SkipDigits(Tail(s)) ELSE s

\* (\.\d+)* at the head of s, taken off.
RECURSIVE SkipDotGroups(_)
SkipDotGroups(s) ==
    IF Len(s) >= 2 /\ s[1] = "." /\ s[2] \in Digits
    THEN SkipDotGroups(SkipDigits(Tail(s)))
    ELSE s

\* re.sub(r"^\d+(\.\d+)*\s*", "", key)
StripHeadingPrefix(key) ==
    IF key # <<>> /\ Head(key) \in Digits
    THEN LStrip(SkipDotGroups(SkipDigits(key)))
    ELSE key

clean_topic_key(key) == Lower(Strip(StripHeadingPrefix(key)))

\* Line 82: the query is case-folded and trimmed; its heading prefix stays.
CleanQuery(t) == Strip(Lower(t))

\* Line 81: {clean_topic_key(k): k for k in topic_map}
RECURSIVE CleanedFrom(_, _, _)
CleanedFrom(keys, n, cleaned) ==
    IF n > Len(keys) THEN cleaned
    ELSE CleanedFrom(keys, n + 1, DictSet(cleaned, clean_topic_key(keys[n]), keys[n]))

Cleaned(tm) == CleanedFrom(DictKeys(tm), 1, <<>>)

\* difflib find_longest_match without junk: the longest common block, the
\* earliest in a among the longest, the earliest in b among those.
MatchBlocks(a, b) ==
    {t \in (1..Len(a)) \X (1..Len(b)) \X (1..Len(a)) :
        /\ t[1] + t[3] - 1 <= Len(a)
        /\ t[2] + t[3] - 1 <= Len(b)
        /\ SubSeq(a, t[1], t[1] + t[3] - 1) = SubSeq(b, t[2], t[2] + t[3] - 1)}

LongestMatch(a, b) ==
    CHOOSE t \in MatchBlocks(a, b) :
        \A u \in MatchBlocks(a, b) :
            \/ t[3] > u[3]
            \/ t[3] = u[3] /\ t[1] < u[1]
            \/ t[3] = u[3] /\ t[1] = u[1] /\ t[2] <= u[2]

\* difflib get_matching_blocks: the characters matched, summed.
RECURSIVE Matched(_, _)
Matched(a, b) ==
    IF MatchBlocks(a, b) = {} THEN 0
    ELSE LET t == LongestMatch(a, b)
         IN  t[3] + Matched(SubSeq(a, 1, t[1] - 1), SubSeq(b, 1, t[2] - 1))
                  + Matched(SubSeq(a, t[1] + t[3], Len(a)),
                            SubSeq(b, t[2] + t[3], Len(b)))

\* SequenceMatcher(x, word).ratio() >= 0.6, with ratio = 2 * matched / total.
RatioAtLeastCutoff(x, word) == 10 * Matched(x, word) >= 3 * (Len(x) + Len(word))

\* (ratio(x), x) < (ratio(y), y), the order get_close_matches ranks by.
ScoreLess(x, y, word) ==
    LET mx == Matched(x, word) * (Len(y) + Len(word))
        my == Matched(y, word) * (Len(x) + Len(word))
    IN  mx < my \/ (mx = my /\ StrLess(x, y))

\* difflib.get_close_matches(word, possibilities, n=1, cutoff=0.6)
get_close_matches(word, possibilities) ==
    LET close == {possibilities[n] : n \in {m \in 1..Len(possibilities) :
                      RatioAtLeastCutoff(possibilities[m], word)}}
    IN  IF close = {} THEN <<>>
        ELSE <<CHOOSE x \in close : \A y \in close : y = x \/ ScoreLess(y, x, word)>>

\* by_topic: the key it resolves to and how, with the range and what
\* get_by_pages made of it.
by_topic(t, tm) ==
    LET cleaned == Cleaned(tm)
        tl      == CleanQuery(t)
        matches == get_close_matches(tl, DictKeys(cleaned))
        found(real, path) ==
            [kind |-> "topic", path |-> path, real |-> real,
             s |-> DictGet(tm, real)[1], e |-> DictGet(tm, real)[2],
             body |-> get_by_pages(DictGet(tm, real)[1], DictGet(tm, real)[2])]
    IN  IF DictHas(cleaned, tl) THEN found(DictGet(cleaned, tl), "exact")
        ELSE IF matches = <<>> THEN [kind |-> "not_found"]
        ELSE found(DictGet(cleaned, matches[1]), "fuzzy")

\* Raw titles of the stored index: "1.2 a", "a", "1 aB", "B".
IndexTitles ==
    { <<"1", ".", "2", " ", "a">>, <<"a">>, <<"1", " ", "a", "B">>, <<"B">> }

TopicChars == {"1", " ", "a", "B"}

\* The topic slot: every short string, and every raw title.
TopicStrings ==
    UNION {[1..n -> TopicChars] : n \in 1..MaxTopicLen} \cup IndexTitles

InitResolve ==
    /\ pc = "topic_query"
    /\ entries \in UNION {[1..n -> IndexTitles \X (1..DocPages)] : n \in 0..MaxKeys}
    /\ topic_map = build_topic_map(entries)
    /\ topic \in TopicStrings
    /\ page_query = Unset
    /\ ranges = Unset
    /\ output = Unset
    /\ TocIdle
    /\ SheetIdle

\* run, lines 136-143 and 166-167, with the topic slot set and no page query.
RunTopic ==
    /\ pc = "topic_query"
    /\ output' = IF topic_map = <<>> THEN [kind |-> "no_toc"]
                 ELSE by_topic(topic, topic_map)
    /\ pc' = "run_done"
    /\ UNCHANGED <<topic, page_query, ranges, topicVars, tocVars, sheetVars>>

NextResolve == RunTopic

SpecResolve == InitResolve /\ [][NextResolve]_vars

(***************************************************************************)
(* Claims on the topic resolver.                                           *)
(***************************************************************************)

\* The normal form of section 4.5, for keys and query alike.
NormalForm(x) == Lower(Strip(StripHeadingPrefix(x)))

\* C6: the query is normalized as the index keys are (heading prefix off,
\* then case-fold); when the normalized query equals the normalized form of
\* an index key the resolver returns such a key by exact match, without the
\* fuzzy search.
C6_NormalizedQueryMatchesExactly ==
    (pc = "run_done" /\ topic_map # <<>>
        /\ \E n \in 1..Len(topic_map) : NormalForm(topic_map[n][1]) = NormalForm(topic)) =>
            /\ output.kind = "topic"
            /\ output.path = "exact"
            /\ NormalForm(output.real) = NormalForm(topic)

(***************************************************************************)
(* extract_toc.py: is_toc_like_page, find_toc_page_range                   *)
(***************************************************************************)

\* Bounds: the pages of the PDF, and the small max_scan_pages tried beside
\* the default.
MaxPdfPages == 3
SmallScanCap == 2

\* The defaults of is_toc_like_page and find_toc_page_range.
min_entry_lines == 3
min_total_lines == 5
default_max_scan_pages == 50
default_min_toc_len == 2

\* A line of extracted text, by what the patterns of the code make of it:
\*   "contents"  matches ^(table of )?contents$ once stripped and lowered
\*   "entry"     ends in a dot leader or a gap and a page number (toc_pat)
\*   "prose"     matches neither
\*   "blank"     is empty once stripped
LineKinds == {"contents", "entry", "prose", "blank"}

\* The page texts tried (extract_text() or ""): empty, a heading alone, a
\* heading over entries, entries at the two thresholds, one line short of
\* min_total_lines (a blank line does not count), one entry short of
\* min_entry_lines, prose.
PageTexts ==
    { <<>>,
      <<"contents">>,
      <<"contents", "entry", "entry", "entry", "prose">>,
      <<"entry", "entry", "entry", "prose", "prose">>,
      <<"entry", "entry", "entry", "blank", "prose">>,
      <<"entry", "entry", "prose", "prose", "prose">>,
      <<"prose", "prose", "prose", "prose", "prose">> }

\* [ln.strip() for ln in text.splitlines() if ln.strip()]
IsNotBlank(ln) == ln # "blank"

NonBlankLines(text) == SelectSeq(text, IsNotBlank)

MatchesTocPat(ln) == ln = "entry"

is_toc_like_page(text) ==
    IF text = <<>> THEN FALSE
    ELSE IF Len(NonBlankLines(text)) < min_total_lines THEN FALSE
    ELSE Len(SelectSeq(NonBlankLines(text), MatchesTocPat)) >= min_entry_lines

\* Line 31: any(re.match(r"^(table of )?contents$", ln) for ln in low)
HasContentsHeading(text) ==
    \E n \in 1..Len(NonBlankLines(text)) : NonBlankLines(text)[n] = "contents"

\* range(min(len(pdf.pages), max_scan_pages))
ScanLimit == IF Len(pdf_pages) < scan_args.max_scan_pages
             THEN Len(pdf_pages) ELSE scan_args.max_scan_pages

\* A mutant: a page that is not TOC-like after the start is passed over and
\* the scan goes on.
ScanStepNoBreak(txt, idx, start, end) ==
    IF start = None
    THEN IF HasContentsHeading(txt) \/ is_toc_like_page(txt)
         THEN [toc_start |-> idx + 1, toc_end |-> idx + 1, brk |-> FALSE]
         ELSE [toc_start |-> start, toc_end |-> end, brk |-> FALSE]
    ELSE IF is_toc_like_page(txt)
         THEN [toc_start |-> start, toc_end |-> idx + 1, brk |-> FALSE]
         ELSE [toc_start |-> start, toc_end |-> end, brk |-> FALSE]

\* Lines 27-39: one turn of the loop, on page index idx (from 0).
ScanStep(txt, idx, start, end) ==
    IF start = None
    THEN IF HasContentsHeading(txt)
         THEN [toc_start |-> idx + 1, toc_end |-> idx + 1, brk |-> FALSE]
         ELSE IF is_toc_like_page(txt)
         THEN [toc_start |-> idx + 1, toc_end |-> idx + 1, brk |-> FALSE]
         ELSE [toc_start |-> start, toc_end |-> end, brk |-> FALSE]
    ELSE IF is_toc_like_page(txt)
         THEN [toc_start |-> start, toc_end |-> idx + 1, brk |-> FALSE]
         ELSE [toc_start |-> start, toc_end |-> end, brk |-> TRUE]

\* Lines 41-43.
ScanResult(start, end, min_toc_len) ==
    IF Truthy(start) /\ Truthy(end) /\ (end - start + 1) >= min_toc_len
    THEN <<start, end>>
    ELSE <<None, None>>

InitToc ==
    /\ pc = "scan"
    /\ pdf_pages \in UNION {[1..n -> PageTexts] : n \in 0..MaxPdfPages}
    /\ scan_args \in [max_scan_pages : {SmallScanCap, default_max_scan_pages},
                      min_toc_len : {default_min_toc_len - 1, default_min_toc_len,
                                     default_min_toc_len + 1}]
    /\ scan_i = 0
    /\ toc_start = None
    /\ toc_end = None
    /\ toc_range = Unset
    /\ TopicIdle
    /\ QueryIdle
    /\ SheetIdle

\* One turn of the for loop; break leaves the loop with scan_i on the page that
\* broke it.
ScanPage ==
    /\ pc = "scan"
    /\ scan_i < ScanLimit
    /\ LET step == ScanStep(pdf_pages[scan_i + 1], scan_i, toc_start, toc_end)
       IN  /\ toc_start' = step.toc_start
           /\ toc_end' = step.toc_end
           /\ IF step.brk
              THEN pc' = "after_loop" /\ scan_i' = scan_i
              ELSE pc' = "scan" /\ scan_i' = scan_i + 1
    /\ UNCHANGED <<pdf_pages, scan_args, toc_range, topicVars, queryVars, sheetVars>>

\* The range is exhausted.
ScanEnd ==
    /\ pc = "scan"
    /\ scan_i >= ScanLimit
    /\ pc' = "after_loop"
    /\ UNCHANGED <<tocVars, topicVars, queryVars, sheetVars>>

ReturnRange ==
    /\ pc = "after_loop"
    /\ toc_range' = ScanResult(toc_start, toc_end, scan_args.min_toc_len)
    /\ pc' = "returned"
    /\ UNCHANGED <<pdf_pages, scan_args, scan_i, toc_start, toc_end, topicVars, queryVars,
                   sheetVars>>

NextToc == ScanPage \/ ScanEnd \/ ReturnRange

SpecToc == InitToc /\ [][NextToc]_vars

(***************************************************************************)
(* Claims on the TOC locator.                                              *)
(***************************************************************************)

\* The pages, among those scanned, that can start a TOC.
StartPages ==
    {p \in 1..ScanLimit :
        HasContentsHeading(pdf_pages[p]) \/ is_toc_like_page(pdf_pages[p])}

FirstStartPage == CHOOSE p \in StartPages : \A q \in StartPages : p <= q

\* The last page of the unbroken run of TOC-like pages that follows the
\* first start page.
RunEndPage ==
    CHOOSE q \in FirstStartPage..ScanLimit :
        /\ \A r \in (FirstStartPage + 1)..q : is_toc_like_page(pdf_pages[r])
        /\ q = ScanLimit \/ ~is_toc_like_page(pdf_pages[q + 1])

\* C7: toc_start is the first scanned page with a contents heading or
\* TOC-like text; toc_end runs over the unbroken run of TOC-like pages
\* after it; the scan stops at the first page after toc_start that is not
\* TOC-like and looks at no later page; the span is returned iff
\* toc_end - toc_start + 1 >= min_toc_len, and (None, None) otherwise.
C7_TocSpanIsFirstUnbrokenRun ==
    /\ toc_start # None =>
          /\ StartPages # {}
          /\ toc_start = FirstStartPage
          /\ toc_end \in FirstStartPage..RunEndPage
    /\ pc \in {"after_loop", "returned"} =>
          IF StartPages = {}
          THEN toc_start = None /\ toc_end = None /\ scan_i = ScanLimit
          ELSE /\ toc_end = RunEndPage
               /\ scan_i = RunEndPage
    /\ pc = "returned" =>
          toc_range =
              IF StartPages # {} /\ RunEndPage - FirstStartPage + 1 >= scan_args.min_toc_len
              THEN <<FirstStartPage, RunEndPage>>
              ELSE <<None, None>>

\* A TOC-like page, a page of prose, then another TOC-like page that the
\* scan never reaches.
C7_Witness ==
    /\ pc = "returned"
    /\ Len(pdf_pages) = 3
    /\ is_toc_like_page(pdf_pages[1])
    /\ ~is_toc_like_page(pdf_pages[2])
    /\ is_toc_like_page(pdf_pages[3])
    /\ scan_args.max_scan_pages = default_max_scan_pages
    /\ scan_args.min_toc_len = 1
    /\ toc_range = <<1, 1>>
    /\ scan_i = 1

(***************************************************************************)
(* spreadsheet_analysis.py: analyze_spreadsheet_auto_merge                 *)
(***************************************************************************)

\* Coordinates are integers; a mean of coordinates is the fraction
\* <<sum, count>>.  Fractions are compared by cross multiplication.
FracLess(a, b) == a[1] * b[2] < b[1] * a[2]

SeqMin(q) == CHOOSE v \in {q[n] : n \in 1..Len(q)} : \A n \in 1..Len(q) : v <= q[n]

SeqMax(q) == CHOOSE v \in {q[n] : n \in 1..Len(q)} : \A n \in 1..Len(q) : v >= q[n]

RECURSIVE SeqSum(_)
SeqSum(q) == IF q = <<>> THEN 0 ELSE Head(q) + SeqSum(Tail(q))

RECURSIVE Flatten(_)
Flatten(qq) == IF qq = <<>> THEN <<>> ELSE Head(qq) \o Flatten(Tail(qq))

\* list.sort(key=...) on items <<key, value>>: a stable sort.
RECURSIVE InsertKeyed(_, _)
InsertKeyed(q, x) ==
    IF q = <<>> THEN <<x>>
    ELSE IF FracLess(x[1], Head(q)[1]) THEN <<x>> \o q
    ELSE <<Head(q)>> \o InsertKeyed(Tail(q), x)

RECURSIVE SortKeyedFrom(_, _, _)
SortKeyedFrom(q, n, acc) ==
    IF n > Len(q) THEN acc ELSE SortKeyedFrom(q, n + 1, InsertKeyed(acc, q[n]))

SortKeyed(q) ==
    LET sorted == SortKeyedFrom(q, 1, <<>>)
    IN  [n \in 1..Len(sorted) |-> sorted[n][2]]

\* The vertices of a polygon are <<x, y>> pairs.
PolyXs(coords) == [n \in 1..Len(coords) |-> coords[n][1]]
PolyYs(coords) == [n \in 1..Len(coords) |-> coords[n][2]]

\* shapely Polygon(coords) raises ValueError for fewer than 3 vertices;
\* min(ys) raises for none.
TableGeometryRaises(coords) == Len(coords) < 3

\* Lines 51-61: the dict kept for a table of the page.
TableEntry(tbl) ==
    [table |-> tbl,
     poly  |-> tbl.polygon,
     ymin  |-> SeqMin(PolyYs(tbl.polygon)),
     ymax  |-> SeqMax(PolyYs(tbl.polygon)),
     xmin  |-> SeqMin(PolyXs(tbl.polygon))]

\* Lines 46-61: the tables of page pn, or the exception of the first bad one.
CollectTablesOf(res, pn) ==
    LET OnPage(t) == t.page_number = pn
        mine == SelectSeq(res.tables, OnPage)
    IN  IF \E n \in 1..Len(mine) : TableGeometryRaises(mine[n].polygon)
        THEN [raised |-> TRUE, tables |-> <<>>]
        ELSE [raised |-> FALSE, tables |-> [n \in 1..Len(mine) |-> TableEntry(mine[n])]]

\* Line 67: the table's vertical extent meets the band's.
Overlaps(tbl, band) == ~(tbl.ymax < band.ymin \/ tbl.ymin > band.ymax)

\* A mutant: a band keeps the extent of its first table.
PlaceTableKeepsExtent(bnds, tbl) ==
    IF \E n \in 1..Len(bnds) : Overlaps(tbl, bnds[n])
    THEN LET first == CHOOSE n \in 1..Len(bnds) :
                          /\ Overlaps(tbl, bnds[n])
                          /\ \A m \in 1..(n - 1) : ~Overlaps(tbl, bnds[m])
         IN  [bnds EXCEPT ![first].tables = Append(bnds[first].tables, tbl)]
    ELSE Append(bnds, [tables |-> <<tbl>>, ymin |-> tbl.ymin, ymax |-> tbl.ymax])

\* Lines 65-74: the table joins the first band it overlaps, or starts one.
PlaceTable(bnds, tbl) ==
    IF \E n \in 1..Len(bnds) : Overlaps(tbl, bnds[n])
    THEN LET first == CHOOSE n \in 1..Len(bnds) :
                          /\ Overlaps(tbl, bnds[n])
                          /\ \A m \in 1..(n - 1) : ~Overlaps(tbl, bnds[m])
         IN  [bnds EXCEPT ![first] =
                 [tables |-> Append(bnds[first].tables, tbl),
                  ymin   |-> IF tbl.ymin < bnds[first].ymin THEN tbl.ymin
                             ELSE bnds[first].ymin,
                  ymax   |-> IF tbl.ymax > bnds[first].ymax THEN tbl.ymax
                             ELSE bnds[first].ymax]]
    ELSE Append(bnds, [tables |-> <<tbl>>, ymin |-> tbl.ymin, ymax |-> tbl.ymax])

RECURSIVE ClusterFrom(_, _, _)
ClusterFrom(tbls, n, bnds) ==
    IF n > Len(tbls) THEN bnds ELSE ClusterFrom(tbls, n + 1, PlaceTable(bnds, tbls[n]))

\* Lines 63-74.
ClusterBandsOf(tbls) == ClusterFrom(tbls, 1, <<>>)

\* A mutant: the tables of a band stay in the order they were placed.
SortBandTablesKeepsOrder(tbls) == tbls

\* Line 80: band["tables"].sort(key=lambda t: t["xmin"])
SortBandTables(tbls) ==
    SortKeyed([n \in 1..Len(tbls) |-> << <<tbls[n].xmin, 1>>, tbls[n] >>])

\* Line 84: max(c.column_index for c in cells) + 1
NCols(tbl) ==
    SeqMax([n \in 1..Len(tbl.table.cells) |-> tbl.table.cells[n].column_index]) + 1

\* Lines 82-86: the offset of each table of the band, and cum after the last.
RECURSIVE OffsetsFrom(_, _, _, _)
OffsetsFrom(tbls, n, offs, cum) ==
    IF n > Len(tbls) THEN [offsets |-> offs, cum |-> cum]
    ELSE OffsetsFrom(tbls, n + 1, Append(offs, cum), cum + NCols(tbls[n]))

BandOffsets(tbls) == OffsetsFrom(tbls, 1, <<>>, 0)

\* Lines 92-100: what one cell appends, as <<row, {col, text}>> items.
CellItems(cell, off) ==
    [k \in 1..(IF cell.column_span > 0 THEN cell.column_span ELSE 0) |->
        <<cell.row_index,
          [col |-> off + cell.column_index + (k - 1), text |-> Strip(cell.content)]>>]

TableItems(tbl, off) ==
    Flatten([n \in 1..Len(tbl.table.cells) |-> CellItems(tbl.table.cells[n], off)])

\* band_rows.setdefault(r, []).append(...), item after item.
RECURSIVE BandRowsFrom(_, _, _)
BandRowsFrom(items, n, rows) ==
    IF n > Len(items) THEN rows
    ELSE BandRowsFrom(items, n + 1,
            DictSet(rows, items[n][1],
                    Append(IF DictHas(rows, items[n][1])
                           THEN DictGet(rows, items[n][1]) ELSE <<>>,
                           items[n][2])))

\* Lines 88-100, for the sorted tables of a band and their offsets.
BandRows(tbls, offs) ==
    BandRowsFrom(Flatten([n \in 1..Len(tbls) |-> TableItems(tbls[n], offs[n])]), 1, <<>>)

\* Lines 78-86: a band with its tables sorted left to right.
SortedBand(band) == [band EXCEPT !.tables = SortBandTables(band.tables)]

\* Line 101.
BandElement(band) ==
    [type |-> "band", y |-> <<band.ymin, 1>>,
     rows |-> BandRows(band.tables, BandOffsets(band.tables).offsets)]

\* A mutant: only the horizontal position of the point is looked at.
PolyContainsXOnly(poly, pt) ==
    /\ SeqMin(PolyXs(poly)) * pt[3] < pt[1]
    /\ pt[1] < SeqMax(PolyXs(poly)) * pt[3]

\* shapely poly.contains(pt) for the polygons tried, which are rectangles
\* with sides along the axes: pt, the fraction pair <<sx, sy, n>>, lies
\* strictly inside.
PolyContains(poly, pt) ==
    /\ SeqMin(PolyXs(poly)) * pt[3] < pt[1]
    /\ pt[1] < SeqMax(PolyXs(poly)) * pt[3]
    /\ SeqMin(PolyYs(poly)) * pt[3] < pt[2]
    /\ pt[2] < SeqMax(PolyYs(poly)) * pt[3]

\* Lines 106-109: Point(mean x, mean y), as <<sum x, sum y, count>>.
LinePoint(line) ==
    <<SeqSum(PolyXs(line.polygon)), SeqSum(PolyYs(line.polygon)), Len(line.polygon)>>

\* sum(ys) / len(ys) raises ZeroDivisionError for a polygon of no vertex.
LineGeometryRaises(line) == Len(line.polygon) = 0

\* Line 110: the line lies in no table polygon of the page.
LineIsKept(line, tbls) ==
    ~\E n \in 1..Len(tbls) : PolyContains(tbls[n].poly, LinePoint(line))

LineElement(line) ==
    [type |-> "line", y |-> <<LinePoint(line)[2], LinePoint(line)[3]>>,
     text |-> Strip(line.content)]

\* Lines 104-111: the elements the lines of the page add.
RECURSIVE LineElementsFrom(_, _, _, _)
LineElementsFrom(lines, n, tbls, els) ==
    IF n > Len(lines) THEN [raised |-> FALSE, elements |-> els]
    ELSE IF LineGeometryRaises(lines[n]) THEN [raised |-> TRUE, elements |-> els]
    ELSE LineElementsFrom(lines, n + 1, tbls,
            IF LineIsKept(lines[n], tbls) THEN Append(els, LineElement(lines[n]))
            ELSE els)

\* Line 114: elements.sort(key=lambda e: e["y"])
SortElementsByY(els) == SortKeyed([n \in 1..Len(els) |-> <<els[n].y, els[n]>>])

\* sorted(el["rows"]): the row indexes of a band, ascending.
SortedRowKeys(rows) ==
    SortKeyed([n \in 1..Len(rows) |-> << <<rows[n][1], 1>>, rows[n][1] >>])

\* Lines 118-121: the cells of one band row.
RowCells(cells) ==
    LET sorted == SortKeyed([n \in 1..Len(cells) |-> << <<cells[n].col, 1>>, cells[n] >>])
    IN  [n \in 1..Len(sorted) |->
            [value |-> sorted[n].text, enable |-> TRUE, index |-> n]]

\* A mutant: a text row is appended without advancing the counter.
EmitOfLineStays(el, cur) ==
    IF el.type = "band"
    THEN [rows |-> [n \in 1..Len(SortedRowKeys(el.rows)) |->
                      [cells |-> RowCells(DictGet(el.rows, SortedRowKeys(el.rows)[n])),
                       index |-> cur + n - 1]],
          current_row |-> cur + Len(el.rows) + 1]
    ELSE [rows |-> << [cells |-> <<[value |-> el.text, enable |-> TRUE, index |-> 1]>>,
                       index |-> cur] >>,
          current_row |-> cur]

\* A mutant: the counter is not advanced once more after a band.
EmitOfBandLeavesNoGap(el, cur) ==
    IF el.type = "band"
    THEN [rows |-> [n \in 1..Len(SortedRowKeys(el.rows)) |->
                      [cells |-> RowCells(DictGet(el.rows, SortedRowKeys(el.rows)[n])),
                       index |-> cur + n - 1]],
          current_row |-> cur + Len(el.rows)]
    ELSE [rows |-> << [cells |-> <<[value |-> el.text, enable |-> TRUE, index |-> 1]>>,
                       index |-> cur] >>,
          current_row |-> cur + 1]

\* Lines 116-130: the rows one element appends, and the counter after it.
EmitOf(el, cur) ==
    IF el.type = "band"
    THEN [rows |-> [n \in 1..Len(SortedRowKeys(el.rows)) |->
                      [cells |-> RowCells(DictGet(el.rows, SortedRowKeys(el.rows)[n])),
                       index |-> cur + n - 1]],
          current_row |-> cur + Len(el.rows) + 1]
    ELSE [rows |-> << [cells |-> <<[value |-> el.text, enable |-> TRUE, index |-> 1]>>,
                       index |-> cur] >>,
          current_row |-> cur + 1]

\* The page being processed.
Page == result.pages[page_idx]

\* Lines 44-61: the for loop takes the next page and collects its tables.
CollectTables ==
    /\ pc = "page"
    /\ page_idx <= Len(result.pages)
    /\ LET got == CollectTablesOf(result, Page.page_number)
       IN  IF got.raised
           THEN pc' = "raised" /\ UNCHANGED tables
           ELSE pc' = "cluster" /\ tables' = got.tables
    /\ UNCHANGED <<result, page_idx, bands, offsets, elements, el_idx, sheet_rows,
                   current_row, data, topicVars, queryVars, tocVars>>

\* Lines 63-74.
ClusterBands ==
    /\ pc = "cluster"
    /\ bands' = ClusterBandsOf(tables)
    /\ pc' = "build"
    /\ UNCHANGED <<result, page_idx, tables, offsets, elements, el_idx, sheet_rows,
                   current_row, data, topicVars, queryVars, tocVars>>

\* Lines 77-101: every band is sorted and becomes a layout element.
BuildElements ==
    /\ pc = "build"
    /\ bands' = [n \in 1..Len(bands) |-> SortedBand(bands[n])]
    /\ offsets' = [n \in 1..Len(bands) |-> BandOffsets(SortedBand(bands[n]).tables)]
    /\ elements' = [n \in 1..Len(bands) |-> BandElement(SortedBand(bands[n]))]
    /\ pc' = "lines"
    /\ UNCHANGED <<result, page_idx, tables, el_idx, sheet_rows, current_row, data,
                   topicVars, queryVars, tocVars>>

\* Lines 104-111.
AddLines ==
    /\ pc = "lines"
    /\ LET got == LineElementsFrom(Page.lines, 1, tables, elements)
       IN  /\ elements' = got.elements
           /\ pc' = IF got.raised THEN "raised" ELSE "sort"
    /\ UNCHANGED <<result, page_idx, tables, bands, offsets, el_idx, sheet_rows,
                   current_row, data, topicVars, queryVars, tocVars>>

\* Line 114.
SortElements ==
    /\ pc = "sort"
    /\ elements' = SortElementsByY(elements)
    /\ el_idx' = 1
    /\ pc' = "emit"
    /\ UNCHANGED <<result, page_idx, tables, bands, offsets, sheet_rows, current_row,
                   data, topicVars, queryVars, tocVars>>

\* Lines 115-130: one turn of the emit loop.
EmitElement ==
    /\ pc = "emit"
    /\ el_idx <= Len(elements)
    /\ sheet_rows' = sheet_rows \o EmitOf(elements[el_idx], current_row).rows
    /\ current_row' = EmitOf(elements[el_idx], current_row).current_row
    /\ el_idx' = el_idx + 1
    /\ UNCHANGED <<pc, result, page_idx, tables, bands, offsets, elements, data,
                   topicVars, queryVars, tocVars>>

\* The emit loop is over: on to the next page.
EndPage ==
    /\ pc = "emit"
    /\ el_idx > Len(elements)
    /\ page_idx' = page_idx + 1
    /\ pc' = "page"
    /\ UNCHANGED <<result, tables, bands, offsets, elements, el_idx, sheet_rows,
                   current_row, data, topicVars, queryVars, tocVars>>

\* Lines 132-137: no page is left.
ReturnData ==
    /\ pc = "page"
    /\ page_idx > Len(result.pages)
    /\ data' = [activeSheet |-> "Sheet1",
                sheets |-> << [name |-> "Sheet1", rows |-> sheet_rows] >>]
    /\ pc' = "done"
    /\ UNCHANGED <<result, page_idx, tables, bands, offsets, elements, el_idx,
                   sheet_rows, current_row, topicVars, queryVars, tocVars>>

NextSheet ==
    \/ CollectTables
    \/ ClusterBands
    \/ BuildElements
    \/ AddLines
    \/ SortElements
    \/ EmitElement
    \/ EndPage
    \/ ReturnData

\* Lines 39-41: the state before the first page, for an analysis res.
SheetStart(res) ==
    /\ pc = "page"
    /\ result = res
    /\ page_idx = 1
    /\ tables = <<>>
    /\ bands = <<>>
    /\ offsets = <<>>
    /\ elements = <<>>
    /\ el_idx = 0
    /\ sheet_rows = <<>>
    /\ current_row = 1
    /\ data = Unset
    /\ TopicIdle
    /\ QueryIdle
    /\ TocIdle

\* The analyses tried.  A polygon is a sequence of <<x, y>> vertices; the
\* table polygons of a well-formed analysis are rectangles.
Rect(x0, y0, x1, y1) == << <<x0, y0>>, <<x1, y0>>, <<x1, y1>>, <<x0, y1>> >>

RectA == Rect(0, 0, 2, 2)
RectB == Rect(3, 1, 5, 4)
RectC == Rect(0, 3, 2, 5)
RectD == Rect(3, 0, 5, 2)
RectE == Rect(3, 5, 5, 6)

Cell(r, c, span, content) ==
    [row_index |-> r, column_index |-> c, column_span |-> span, content |-> content]

CellsOne == << Cell(0, 0, 1, <<"a">>) >>
CellsTwo == << Cell(0, 1, 1, <<"c", " ">>), Cell(0, 0, 1, <<" ", "b">>) >>
CellsWide == << Cell(0, 0, 2, <<"d">>), Cell(1, 0, 1, <<"e">>) >>

Table(pn, polygon, cells) == [page_number |-> pn, polygon |-> polygon, cells |-> cells]

Line(content, polygon) == [content |-> content, polygon |-> polygon]

LineInsideA == Line(<<" ", "x">>, << <<0, 0>>, <<2, 0>>, <<1, 2>> >>)
LineBetween == Line(<<"y">>, Rect(2, 0, 3, 2))
LineOnEdgeOfA == Line(<<"x", "y">>, << <<0, 0>>, <<2, 0>> >>)
LineBelow == Line(<<"y", " ">>, Rect(0, 6, 2, 7))
LineNoVertex == Line(<<"x">>, <<>>)

SeqsUpTo(S, n) == UNION {[1..k -> S] : k \in 0..n}

\* A page of an analysis: its tables and its lines.
PageKind(tbls, lines) == [tables |-> tbls, lines |-> lines]

SheetPageKinds ==
    {PageKind(<<>>, <<>>),
     PageKind(<<>>, <<LineBelow>>),
     PageKind(<<[polygon |-> RectA, cells |-> CellsWide]>>, <<LineBelow, LineInsideA>>),
     PageKind(<<[polygon |-> RectB, cells |-> CellsOne],
                [polygon |-> RectA, cells |-> CellsTwo]>>, <<LineBetween>>),
     PageKind(<<[polygon |-> <<>>, cells |-> CellsOne]>>, <<LineBelow>>),
     PageKind(<<[polygon |-> RectA, cells |-> CellsOne],
                [polygon |-> << <<3, 0>>, <<5, 2>> >>, cells |-> CellsOne]>>,
              <<LineBelow>>),
     PageKind(<<[polygon |-> RectA, cells |-> CellsOne]>>, <<LineBelow, LineNoVertex>>),
     PageKind(<<[polygon |-> RectA, cells |-> CellsOne]>>, <<LineOnEdgeOfA>>)}

\* result.pages and result.tables for a sequence of page kinds.
DocOf(kinds) ==
    [pages  |-> [n \in 1..Len(kinds) |-> [page_number |-> n, lines |-> kinds[n].lines]],
     tables |-> Flatten([n \in 1..Len(kinds) |->
                   [m \in 1..Len(kinds[n].tables) |->
                       Table(n, kinds[n].tables[m].polygon, kinds[n].tables[m].cells)]])]

MaxSheetPages == 2

InitSheet == \E kinds \in SeqsUpTo(SheetPageKinds, MaxSheetPages) : SheetStart(DocOf(kinds))

SpecSheet == InitSheet /\ [][NextSheet]_vars

\* Two pages, the lines on the first: tables of either page and lines.
MaxPageTables == 2
MaxLines == 2

PageTables == {Table(pn, r, CellsOne) : pn \in {1, 2}, r \in {RectA, RectB}}

PageLines == {LineInsideA, LineBetween, LineOnEdgeOfA, LineBelow}

InitPage ==
    \E tbls \in SeqsUpTo(PageTables, MaxPageTables) :
        \E lines \in SeqsUpTo(PageLines, MaxLines) :
            SheetStart([pages  |-> << [page_number |-> 1, lines |-> lines],
                                      [page_number |-> 2, lines |-> <<>>] >>,
                        tables |-> tbls])

SpecPage == InitPage /\ [][NextSheet]_vars

\* One page of tables only.
MaxBandTables == 3

BandTables ==
    {Table(1, r, c) : r \in {RectA, RectB, RectC, RectD},
                      c \in {CellsOne, CellsTwo, CellsWide}}
    \cup {Table(1, RectE, CellsOne)}

InitBands ==
    \E tbls \in SeqsUpTo(BandTables, MaxBandTables) :
        SheetStart([pages |-> << [page_number |-> 1, lines |-> <<>>] >>, tables |-> tbls])

SpecBands == InitBands /\ [][NextSheet]_vars

(***************************************************************************)
(* Claims on the layout reconstruction                                     *)
(***************************************************************************)

RowIndexes == [n \in 1..Len(sheet_rows) |-> sheet_rows[n].index]

\* C1: the index values of the emitted rows, read in output order, are at
\* least 1 and strictly increasing (hence unique) across the whole document;
\* the counter is not reset when a new page starts, and the rows returned
\* are the rows emitted.
C1_RowIndexesStrictlyIncrease ==
    /\ \A n \in 1..Len(sheet_rows) : RowIndexes[n] >= 1
    /\ \A n \in 1..(Len(sheet_rows) - 1) : RowIndexes[n] < RowIndexes[n + 1]
    /\ \A n \in 1..Len(sheet_rows) : RowIndexes[n] < current_row
    /\ pc = "done" => data.sheets[1].rows = sheet_rows

\* Two pages that both emit rows: a band and a line, then a band of two
\* rows and a line.
C1_Witness ==
    /\ pc = "done"
    /\ Len(result.pages) = 2
    /\ Len(result.pages[1].lines) = 1
    /\ Len(result.pages[2].lines) = 2
    /\ RowIndexes = <<1, 3, 4, 5, 7>>

XMin(t) == SeqMin(PolyXs(t.polygon))
XMax(t) == SeqMax(PolyXs(t.polygon))
YMin(t) == SeqMin(PolyYs(t.polygon))
YMax(t) == SeqMax(PolyYs(t.polygon))

VerticalExtentsOverlap(t, u) == YMin(t) <= YMax(u) /\ YMin(u) <= YMax(t)

HorizontalExtentsDisjoint(t, u) == XMax(t) < XMin(u) \/ XMax(u) < XMin(t)

\* The column count of a table: its largest column_index plus one.
ColumnCount(t) ==
    1 + CHOOSE c \in {t.cells[n].column_index : n \in 1..Len(t.cells)} :
            \A n \in 1..Len(t.cells) : t.cells[n].column_index <= c

\* How many cells of t, replicated over their span and shifted by off, give
\* the item v in row r.
Wanted(t, off, r, v) ==
    Cardinality({ns \in (1..Len(t.cells)) \X (0..3) :
        /\ t.cells[ns[1]].row_index = r
        /\ ns[2] < t.cells[ns[1]].column_span
        /\ v = [col  |-> off + t.cells[ns[1]].column_index + ns[2],
                text |-> Strip(t.cells[ns[1]].content)]})

\* How many items of row r of the band element el are v.
Produced(el, r, v) ==
    IF DictHas(el.rows, r)
    THEN Cardinality({k \in 1..Len(DictGet(el.rows, r)) : DictGet(el.rows, r)[k] = v})
    ELSE 0

TwoTablesSideBySide ==
    /\ pc = "lines"
    /\ Len(result.tables) = 2
    /\ VerticalExtentsOverlap(result.tables[1], result.tables[2])
    /\ HorizontalExtentsDisjoint(result.tables[1], result.tables[2])

\* C8: two tables of a page whose vertical extents overlap and whose
\* horizontal extents are disjoint end, in either input order, in one band;
\* the band has as many columns as the two tables together, and a cell of
\* the right-hand table gets the column (column count of the left-hand
\* table) + column_index + s for every s below its span, as a cell of the
\* left-hand one gets column_index + s.
C8_SideBySideTablesMergeIntoOneBand ==
    TwoTablesSideBySide =>
        LET first == result.tables[1]
            second == result.tables[2]
            left == IF XMax(first) < XMin(second) THEN first ELSE second
            right == IF XMax(first) < XMin(second) THEN second ELSE first
            texts == {Strip(left.cells[n].content) : n \in 1..Len(left.cells)}
                     \cup {Strip(right.cells[n].content) : n \in 1..Len(right.cells)}
        IN  /\ Len(bands) = 1
            /\ [n \in 1..2 |-> bands[1].tables[n].table] = <<left, right>>
            /\ offsets = << [offsets |-> <<0, ColumnCount(left)>>,
                             cum |-> ColumnCount(left) + ColumnCount(right)] >>
            /\ Len(elements) = 1
            /\ elements[1].type = "band"
            /\ \A r \in 0..2 : \A c \in 0..8 : \A txt \in texts :
                   Produced(elements[1], r, [col |-> c, text |-> txt])
                     = Wanted(left, 0, r, [col |-> c, text |-> txt])
                       + Wanted(right, ColumnCount(left), r, [col |-> c, text |-> txt])

\* The right-hand table comes first in the input and holds a spanning cell.
C8_Witness ==
    /\ TwoTablesSideBySide
    /\ result.tables = <<Table(1, RectB, CellsWide), Table(1, RectA, CellsTwo)>>
    /\ offsets = << [offsets |-> <<0, 2>>, cum |-> 3] >>
    /\ DictGet(elements[1].rows, 0)[3] = [col |-> 2, text |-> <<"d">>]
    /\ DictGet(elements[1].rows, 0)[4] = [col |-> 3, text |-> <<"d">>]

\* The centroid <<sum x, sum y, count>> of a line's polygon against the
\* rectangle of a table.
Centroid(line) ==
    <<SeqSum(PolyXs(line.polygon)), SeqSum(PolyYs(line.polygon)), Len(line.polygon)>>

StrictlyInside(line, t) ==
    LET pt == Centroid(line)
    IN  /\ XMin(t) * pt[3] < pt[1] /\ pt[1] < XMax(t) * pt[3]
        /\ YMin(t) * pt[3] < pt[2] /\ pt[2] < YMax(t) * pt[3]

StrictlyOutside(line, t) ==
    LET pt == Centroid(line)
    IN  \/ pt[1] < XMin(t) * pt[3] \/ pt[1] > XMax(t) * pt[3]
        \/ pt[2] < YMin(t) * pt[3] \/ pt[2] > YMax(t) * pt[3]

TablesOfPage(pn) == {result.tables[n] : n \in {m \in 1..Len(result.tables) :
                                                   result.tables[m].page_number = pn}}

\* The rows that hold a single cell of index 1 with the value txt.
TextRows(txt) ==
    {n \in 1..Len(sheet_rows) :
        sheet_rows[n].cells = <<[value |-> txt, enable |-> TRUE, index |-> 1]>>}

\* C9: a line whose centroid lies inside the polygon of a table of its page
\* gives no row; a line whose centroid lies outside every table polygon of
\* its page gives exactly one row, of a single cell with index 1 and the
\* trimmed text.  Counted per text over the lines of the first page (cell
\* texts and line texts are distinct): there are at least as many such rows
\* as lines outside all tables, and at most as many as lines not inside one.
C9_LineKeptIffCentroidOutsideTables ==
    pc = "done" =>
        LET lines == result.pages[1].lines
            With(txt) == {m \in 1..Len(lines) : Strip(lines[m].content) = txt}
        IN  \A txt \in {Strip(lines[m].content) : m \in 1..Len(lines)} :
                /\ Cardinality({m \in With(txt) :
                       \A t \in TablesOfPage(1) : StrictlyOutside(lines[m], t)})
                     <= Cardinality(TextRows(txt))
                /\ Cardinality(TextRows(txt))
                     <= Cardinality({m \in With(txt) :
                           ~\E t \in TablesOfPage(1) : StrictlyInside(lines[m], t)})

\* One line inside the only table of the page and one below it: a band row
\* and the row of the second line.
C9_Witness ==
    /\ pc = "done"
    /\ result.tables = <<Table(1, RectA, CellsOne)>>
    /\ result.pages[1].lines = <<LineInsideA, LineBelow>>
    /\ StrictlyInside(LineInsideA, result.tables[1])
    /\ StrictlyOutside(LineBelow, result.tables[1])
    /\ Len(sheet_rows) = 2
    /\ sheet_rows[2] = [cells |-> <<[value |-> <<"y">>, enable |-> TRUE, index |-> 1]>>,
                        index |-> 3]

\* C10: a table or a line with an empty polygon, or a table polygon of
\* fewer than 3 vertices, is skipped and the reconstruction goes on: it
\* never ends in an exception.
C10_DegenerateGeometryNeverAborts == pc # "raised"

(***************************************************************************)
(* Claim on the end of a resolved topic range                              *)
(***************************************************************************)

\* The pages from start to the last page of the document.
PagesToEndOfDocument(start) == [k \in 1..(DocPages - start + 1) |-> start + k - 1]

\* C11: when the topic resolves to an index entry whose end is null, the
\* range runs from its start to the end of the document and the text of
\* those pages is returned: the query does not fail, and the range is not
\* the start page alone.
C11_NullEndRunsToEndOfDocument ==
    (pc = "run_done" /\ output.kind = "topic" /\ output.e = None) =>
        output.body = [error |-> FALSE, pages |-> PagesToEndOfDocument(output.s)]

(***************************************************************************)
(* Claims on the bands of a page                                           *)
(***************************************************************************)

\* The global columns the cells of t get at offset off.
ColumnsOf(t, off) ==
    UNION {{off + t.cells[n].column_index + s0 : s0 \in 0..(t.cells[n].column_span - 1)} :
              n \in 1..Len(t.cells)}

\* C12: in every band, once its tables are sorted and their offsets
\* computed, no global column of a cell of one member table is a global
\* column of a cell of another member table, whatever the shape of the
\* tables, spans reaching past the largest column_index included.
C12_BandColumnsNeverCollide ==
    pc = "lines" =>
        \A b \in 1..Len(bands) :
            \A i, j \in 1..Len(bands[b].tables) :
                i # j =>
                    ColumnsOf(bands[b].tables[i].table, offsets[b].offsets[i])
                      \cap ColumnsOf(bands[b].tables[j].table, offsets[b].offsets[j]) = {}

\* The input orders of a sequence of tables.
Orders(tbls) ==
    {[k \in 1..Len(tbls) |-> tbls[f[k]]] :
        f \in {g \in [1..Len(tbls) -> 1..Len(tbls)] :
                  \A a, b \in 1..Len(tbls) : g[a] = g[b] => a = b}}

\* Each table of the page overlaps each of the others vertically.
MutuallyOverlapping ==
    \A a, b \in 1..Len(tables) : VerticalExtentsOverlap(tables[a].table, tables[b].table)

\* Three tables, the third overlapping the two others, which are apart.
ChainWithLinkLast ==
    /\ Len(tables) = 3
    /\ ~VerticalExtentsOverlap(tables[1].table, tables[2].table)
    /\ VerticalExtentsOverlap(tables[3].table, tables[1].table)
    /\ VerticalExtentsOverlap(tables[3].table, tables[2].table)

\* C13 as stated: three or more tables of a page whose vertical extents
\* mutually overlap end in more than one band for some input order and in
\* one band for another.
C13_MutuallyOverlappingTablesCanSplit ==
    (pc = "build" /\ Len(tables) >= 3 /\ MutuallyOverlapping) =>
        /\ \E order \in Orders(tables) : Len(ClusterBandsOf(order)) > 1
        /\ \E order \in Orders(tables) : Len(ClusterBandsOf(order)) = 1

\* C13 amended: tables of a page whose vertical extents mutually overlap
\* (non-strictly) end in one band that holds them in input order, in every
\* input order.  The pass is order-sensitive for tables linked by a chain of
\* overlaps only: when the table that overlaps two tables lying apart comes
\* last, those two have started a band each, the last one joins the first
\* of them and the bands are not merged; with the linking table second, the
\* three end in one band.
C13_OnlyChainsOfOverlapsSplit ==
    pc = "build" =>
        /\ (tables # <<>> /\ MutuallyOverlapping) =>
               /\ bands = << [tables |-> tables,
                              ymin |-> SeqMin([n \in 1..Len(tables) |-> tables[n].ymin]),
                              ymax |-> SeqMax([n \in 1..Len(tables) |-> tables[n].ymax])] >>
               /\ \A order \in Orders(tables) : Len(ClusterBandsOf(order)) = 1
        /\ ChainWithLinkLast =>
               /\ Len(bands) = 2
               /\ bands[1].tables = <<tables[1], tables[3]>>
               /\ bands[2].tables = <<tables[2]>>
               /\ Len(ClusterBandsOf(<<tables[1], tables[3], tables[2]>>)) = 1

\* The tables A, C, B in this order: B overlaps A and C, which lie apart.
C13_Witness ==
    /\ pc = "build"
    /\ result.tables = <<Table(1, RectA, CellsOne), Table(1, RectC, CellsOne),
                         Table(1, RectB, CellsOne)>>
    /\ ChainWithLinkLast
    /\ ~MutuallyOverlapping
    /\ Len(bands) = 2
    /\ bands[1].ymax = 4

(***************************************************************************)
(* Claim on the separator after a band                                     *)
(***************************************************************************)

\* The rows an element gives: one per row_index of a band, one for a line.
RowCount(el) == IF el.type = "band" THEN Len(el.rows) ELSE 1

RECURSIVE EmittedRows(_)
EmittedRows(n) == IF n = 0 THEN 0 ELSE EmittedRows(n - 1) + RowCount(elements[n])

\* The place in sheet_rows of the first row of the emitted element e of the
\* page, the elements before el_idx having been emitted.
FirstRowOf(e) == Len(sheet_rows) - EmittedRows(el_idx - 1) + EmittedRows(e - 1) + 1

\* The n-th smallest row_index of a band element.
NthRowIndex(el, n) ==
    CHOOSE r \in {el.rows[k][1] : k \in 1..Len(el.rows)} :
        Cardinality({k \in 1..Len(el.rows) : el.rows[k][1] < r}) = n - 1

\* The index of the row emitted after place q, or the counter if none is.
NextIndexAfter(q) == IF q < Len(sheet_rows) THEN sheet_rows[q + 1].index ELSE current_row

\* C14 as stated: once a band is emitted, the last row of the sheet is a
\* blank separator row that took the next value of the row counter.
C14_BandEndsWithBlankSeparatorRow ==
    (pc = "emit" /\ el_idx > 1 /\ elements[el_idx - 1].type = "band") =>
        /\ sheet_rows[Len(sheet_rows)].cells = <<>>
        /\ sheet_rows[Len(sheet_rows)].index = current_row - 1

\* C14 amended: a band gives one row per row_index, in ascending row_index
\* order and with consecutive index values, and no separator row: no row of
\* the sheet is without cells.  The counter is advanced once more after the
\* band, so that exactly one index value stays unused between the band's
\* last row and the row emitted next, of this page or of a later one.
C14_BandLeavesOneIndexUnused ==
    /\ \A n \in 1..Len(sheet_rows) : sheet_rows[n].cells # <<>>
    /\ pc = "emit" =>
           \A e \in 1..(el_idx - 1) :
               IF elements[e].type = "band"
               THEN /\ \A n \in 1..Len(elements[e].rows) :
                          LET row == sheet_rows[FirstRowOf(e) + n - 1]
                              items == DictGet(elements[e].rows, NthRowIndex(elements[e], n))
                          IN  /\ row.index = sheet_rows[FirstRowOf(e)].index + n - 1
                              /\ Len(row.cells) = Len(items)
                              /\ {row.cells[k].value : k \in 1..Len(row.cells)}
                                   = {items[k].text : k \in 1..Len(items)}
                    /\ NextIndexAfter(FirstRowOf(e) + Len(elements[e].rows) - 1)
                         = sheet_rows[FirstRowOf(e) + Len(elements[e].rows) - 1].index + 2
               ELSE /\ sheet_rows[FirstRowOf(e)].cells
                         = <<[value |-> elements[e].text, enable |-> TRUE, index |-> 1]>>
                    /\ NextIndexAfter(FirstRowOf(e)) = sheet_rows[FirstRowOf(e)].index + 1

\* A band of two rows and a line below it, on the second page: the rows of
\* the band take 4 and 5, the line takes 7.
C14_Witness ==
    /\ pc = "emit"
    /\ page_idx = 2
    /\ el_idx = 3
    /\ elements[1].type = "band"
    /\ Len(elements[1].rows) = 2
    /\ elements[2].type = "line"
    /\ RowIndexes = <<1, 3, 4, 5, 7>>
    /\ current_row = 8

====
